---- MODULE Spec2Model ----
(***************************************************************************)
(* A model of the two header-only value wrappers of cpp_c_interop:         *)
(*   include/safe_string.hpp      cinter::basic_safe_string<Char>          *)
(*   include/sentinel_result.hpp  cinter::sentinel_result<T, sentinel, C>  *)
(* One behaviour is a client of ONE template instantiation (objects of     *)
(* different instantiations are different types and can neither be         *)
(* assigned nor compared), compiled by one build, over one caller-owned    *)
(* character memory.                                                       *)
(***************************************************************************)
EXTENDS Integers, Sequences, FiniteSets, TLC

VARIABLES
    inst,     \* the template instantiation the client uses
    build,    \* how the translation unit is compiled
    mem,      \* caller-owned character memory, address -> character
    alive,    \* the objects that are constructed and not yet destroyed
    ptr,      \* basic_safe_string::ptr of every object
    value_,   \* sentinel_result::value_ of every object
    obs       \* the last call of the client and what it returned

vars == <<inst, build, mem, alive, ptr, value_, obs>>

---------------------------------------------------------------------------
(* Bounds of the model *)

MemSize == 3        \* addresses 1..MemSize hold the caller's buffers
MaxChar == 1        \* the characters are 1..MaxChar; 0 is Char{}
MaxNeg  == 2        \* wrapped values range over -MaxNeg..MaxVal
MaxVal  == 5

\* Every operation of the two classes involves one or two objects.
Objs == {"x", "y"}

nullptr == 0
Addrs   == 1..MemSize
Chars   == 1..MaxChar
Values  == (0 - MaxNeg)..MaxVal

---------------------------------------------------------------------------
(* The instantiations and the builds *)

\* The character types empty_string() names, and any other one ("other":
\* unsigned char, a user-defined character type, ...).
CharTypes == {"char", "wchar_t", "char8_t", "char16_t", "char32_t", "other"}

\* The success predicates the header's documentation uses.
Comps == {"equal_to", "not_equal_to", "less"}

\* The sentinels: 0 (also nullptr of a pointer type) and -1.
Sentinels == {0, 0 - 1}

SafeStringInsts ==
    { [tmpl |-> "basic_safe_string", Char |-> c, sentinel |-> 0, comp |-> "none"]
        : c \in CharTypes }

SentinelResultInsts ==
    { [tmpl |-> "sentinel_result", Char |-> "none", sentinel |-> s, comp |-> c]
        : s \in Sentinels, c \in Comps }

\* The example aliases of the documentation of sentinel_result.
SentinelHResult == [tmpl |-> "sentinel_result", Char |-> "none", sentinel |-> 0, comp |-> "equal_to"]
XenomaiResult   == [tmpl |-> "sentinel_result", Char |-> "none", sentinel |-> 0, comp |-> "less"]
StringResult    == [tmpl |-> "sentinel_result", Char |-> "none", sentinel |-> 0, comp |-> "not_equal_to"]

\* A build: the language standard (C++20 defines __cpp_char8_t and, through
\* <string>, __cpp_lib_three_way_comparison) and what reading through a null
\* pointer does on the target: it traps, or page zero is readable.
Builds == [cxx20 : BOOLEAN, null_read : {"trap", "page0"}]

cpp_char8_t == build.cxx20
cpp_lib_three_way_comparison == build.cxx20

---------------------------------------------------------------------------
(* What a call gives back *)

Ret(tag, b, p, n, s) == [tag |-> tag, b |-> b, p |-> p, n |-> n, s |-> s]

RetBool(x)    == Ret("bool", x, 0, 0, <<>>)        \* a bool
RetPtr(a)     == Ret("ptr", FALSE, a, 0, <<>>)     \* a const Char*
RetInt(v)     == Ret("int", FALSE, 0, v, <<>>)     \* a value_type
RetStr(s)     == Ret("str", FALSE, 0, 0, s)        \* an owned std::basic_string
RetView(a, n) == Ret("view", FALSE, a, n, <<>>)    \* a std::basic_string_view
RetRange(s)   == Ret("range", FALSE, 0, 0, s)      \* the characters a range-for visits
Void          == Ret("void", FALSE, 0, 0, <<>>)    \* nothing (a constructor, an assignment)
Crash         == Ret("crash", FALSE, 0, 0, <<>>)   \* the read through nullptr trapped
IllFormed     == Ret("ill_formed", FALSE, 0, 0, <<>>) \* the compiler rejects the call

---------------------------------------------------------------------------
(* Memory *)

\* The "" literal of each character width: its own address past the
\* caller's buffers, holding only the terminator.
LitAddr(c) ==
    CASE c = "char"     -> MemSize + 1
      [] c = "wchar_t"  -> MemSize + 2
      [] c = "char8_t"  -> MemSize + 3
      [] c = "char16_t" -> MemSize + 4
      [] c = "char32_t" -> MemSize + 5

\* s[k]: the character at address a. Address 0 is read only where the
\* target lets it be read (build.null_read = "page0").
deref(a) == IF a \in DOMAIN mem THEN mem[a] ELSE 0

\* Reading through s traps.
traps(s) == s = nullptr /\ build.null_read = "trap"

---------------------------------------------------------------------------
(* basic_safe_string<Char>, Char == inst.Char *)

empty_string ==
    IF inst.Char = "char" THEN LitAddr("char")
    ELSE IF inst.Char = "wchar_t" THEN LitAddr("wchar_t")
    ELSE IF cpp_char8_t /\ inst.Char = "char8_t" THEN LitAddr("char8_t")
    ELSE IF inst.Char = "char16_t" THEN LitAddr("char16_t")
    ELSE IF inst.Char = "char32_t" THEN LitAddr("char32_t")
    ELSE nullptr

\* An is_null() that also answers yes over an empty buffer.
is_null_empty_too(p) == p = nullptr \/ deref(p) = 0

is_null(p) == ~ (p # nullptr)

operator_bool(p) == p # nullptr

\* A c_str() that takes a present but empty buffer for an absent one.
c_str_empty_as_absent(p) == IF p # nullptr /\ deref(p) # 0 THEN p ELSE empty_string

c_str(p) == IF p # nullptr THEN p ELSE empty_string

\* The loop of length(): while (s[len] != Char{}) ++len.
RECURSIVE scan(_, _)
scan(s, len) == IF deref(s + len) # 0 THEN scan(s, len + 1) ELSE len

\* length() is declared without const (line 80).
length_is_const == FALSE

length(p) == LET s == c_str(p) IN scan(s, 0)

\* std::char_traits<Char>::length, which the conversions of a const Char* to
\* std::basic_string and std::basic_string_view call.
traits_length(s) == scan(s, 0)

\* The n characters from address a on.
chars(a, n) == [k \in 1..n |-> deref(a + k - 1)]

string(p) ==
    LET s == c_str(p)
    IN  IF traps(s) THEN Crash ELSE RetStr(chars(s, traits_length(s)))

view(p) ==
    LET s == c_str(p)
    IN  IF traps(s) THEN Crash ELSE RetView(s, traits_length(s))

Min(a, b) == IF a < b THEN a ELSE b

\* std::char_traits<Char>::compare over the first n characters, from the
\* k-th on: the first difference decides. -1, 0 or 1.
RECURSIVE traits_compare(_, _, _, _)
traits_compare(a, b, k, n) ==
    IF k = n THEN 0
    ELSE IF deref(a + k) < deref(b + k) THEN 0 - 1
    ELSE IF deref(b + k) < deref(a + k) THEN 1
    ELSE traits_compare(a, b, k + 1, n)

\* std::basic_string_view::compare: the common length first, then the
\* lengths. -1, 0 or 1.
compare(v, w) ==
    LET r == traits_compare(v.p, w.p, 0, Min(v.n, w.n))
    IN  IF r # 0 THEN r
        ELSE IF v.n < w.n THEN 0 - 1 ELSE IF v.n > w.n THEN 1 ELSE 0

\* std::basic_string_view's operator==: equal sizes and equal characters.
view_eq(v, w) == v.n = w.n /\ compare(v, w) = 0

RelOps == {"==", "!=", "<", "<=", ">", ">="}

\* a op b for two basic_safe_string. With __cpp_lib_three_way_comparison the
\* class declares operator<=> alone: <, <=, >, >= are rewritten to
\* (a <=> b) op 0, while == and != are never rewritten to <=> and find only
\* the built-in candidates behind operator bool and operator const Char*,
\* which are ambiguous. Without it the class declares all six.
relop(op, p, q) ==
    IF cpp_lib_three_way_comparison /\ op \in {"==", "!="} THEN IllFormed
    ELSE IF traps(c_str(p)) \/ traps(c_str(q)) THEN Crash
    ELSE LET v == view(p)
             w == view(q)
         IN  CASE op = "==" -> RetBool(view_eq(v, w))
               [] op = "!=" -> RetBool(~ view_eq(v, w))
               [] op = "<"  -> RetBool(compare(v, w) < 0)
               [] op = "<=" -> RetBool(compare(v, w) <= 0)
               [] op = ">"  -> RetBool(compare(v, w) > 0)
               [] op = ">=" -> RetBool(compare(v, w) >= 0)

begin(p) == RetPtr(c_str(p))

\* end() is const and calls length(), which is not: the call drops const
\* and the compiler rejects every use of end().
end(p) ==
    IF ~ length_is_const THEN IllFormed
    ELSE IF traps(c_str(p)) THEN Crash
    ELSE RetPtr(c_str(p) + length(p))

\* for (Char c : s): the characters of [begin(), end()).
range_for(p) ==
    LET e == end(p)
    IN  IF e.tag # "ptr" THEN e
        ELSE RetRange(chars(begin(p).p, e.p - begin(p).p))

---------------------------------------------------------------------------
(* sentinel_result<T, sentinel, SuccessComp> *)

\* SuccessComp{}(a, b)
SuccessComp(a, b) ==
    CASE inst.comp = "equal_to"     -> a = b
      [] inst.comp = "not_equal_to" -> a # b
      [] inst.comp = "less"         -> a < b

value(v) == v

\* An is_ok() that hands the sentinel to SuccessComp first.
is_ok_swapped(v) == SuccessComp(inst.sentinel, v)

is_ok(v) == SuccessComp(v, inst.sentinel)

\* A has_error() that compares with the sentinel itself, whatever SuccessComp is.
has_error_ne_sentinel(v) == v # inst.sentinel

has_error(v) == ~ is_ok(v)

---------------------------------------------------------------------------
(* The state after start-up *)

NoCall == [op |-> "none", a |-> "-", b |-> "-", arg |-> 0, r |-> Void]

Call(op, a, b, arg, r) == [op |-> op, a |-> a, b |-> b, arg |-> arg, r |-> r]

\* Every buffer of the caller is null-terminated: the last cell holds Char{}.
\* Cell 0 stands for what a readable page zero holds.
Memories ==
    { m \in [0..MemSize -> {0} \cup Chars] :
        /\ m[MemSize] = 0
        /\ (build.null_read = "trap" => m[0] = 0) }

InitSafeString ==
    /\ inst \in SafeStringInsts
    /\ build \in Builds
    /\ inst.Char = "char8_t" => cpp_char8_t
    \* Only an instantiation whose empty_string() is nullptr ever reads
    \* through null; for the others the target's answer is immaterial.
    /\ inst.Char # "other" => build.null_read = "trap"
    /\ mem \in Memories

InitSentinelResult ==
    /\ inst \in SentinelResultInsts
    /\ build \in Builds
    /\ build.null_read = "trap"
    /\ mem = [a \in 0..MemSize |-> 0]

Init ==
    /\ InitSafeString \/ InitSentinelResult
    /\ alive = {}
    /\ ptr = [o \in Objs |-> nullptr]
    /\ value_ = [o \in Objs |-> 0]
    /\ obs = NoCall

\* The client is between two statements: every statement is one call, and
\* what the call returned lives until the end of the statement.
Running == obs = NoCall

\* The end of the statement: the returned temporary is gone. A process that
\* trapped never gets here.
EndStatement ==
    /\ obs # NoCall /\ obs.r.tag # "crash"
    /\ obs' = NoCall
    /\ UNCHANGED <<inst, build, mem, alive, ptr, value_>>

IsSafeString == inst.tmpl = "basic_safe_string"
IsSentinelResult == inst.tmpl = "sentinel_result"

Env == <<inst, build, mem>>

---------------------------------------------------------------------------
(* basic_safe_string: construction, destruction, assignment *)

\* What the caller may pass: nullptr or a pointer into one of its buffers.
Pointers == {nullptr} \cup Addrs

SS_DefaultCtor(o) ==
    /\ Running /\ IsSafeString /\ o \notin alive
    /\ alive' = alive \cup {o}
    /\ ptr' = [ptr EXCEPT ![o] = nullptr]
    /\ obs' = Call("ctor", o, "-", 0, Void)
    /\ UNCHANGED <<Env, value_>>

SS_Ctor(o, src) ==
    /\ Running /\ IsSafeString /\ o \notin alive
    /\ alive' = alive \cup {o}
    /\ ptr' = [ptr EXCEPT ![o] = src]
    /\ obs' = Call("ctor_ptr", o, "-", src, Void)
    /\ UNCHANGED <<Env, value_>>

SS_CopyCtor(o, other) ==
    /\ Running /\ IsSafeString /\ o \notin alive /\ other \in alive
    /\ alive' = alive \cup {o}
    /\ ptr' = [ptr EXCEPT ![o] = ptr[other]]
    /\ obs' = Call("copy_ctor", o, other, 0, Void)
    /\ UNCHANGED <<Env, value_>>

SS_MoveCtor(o, other) ==
    /\ Running /\ IsSafeString /\ o \notin alive /\ other \in alive
    /\ alive' = alive \cup {o}
    /\ ptr' = [ptr EXCEPT ![o] = ptr[other]]
    /\ obs' = Call("move_ctor", o, other, 0, Void)
    /\ UNCHANGED <<Env, value_>>

SS_Dtor(o) ==
    /\ Running /\ IsSafeString /\ o \in alive
    /\ alive' = alive \ {o}
    /\ ptr' = [ptr EXCEPT ![o] = nullptr]
    /\ obs' = Call("dtor", o, "-", 0, Void)
    /\ UNCHANGED <<Env, value_>>

SS_CopyAssign(o, other) ==
    /\ Running /\ IsSafeString /\ o \in alive /\ other \in alive
    /\ ptr' = [ptr EXCEPT ![o] = ptr[other]]
    /\ obs' = Call("copy_assign", o, other, 0, Void)
    /\ UNCHANGED <<Env, alive, value_>>

\* A move assignment that leaves the moved-from object empty.
SS_MoveAssign_resets_source(o, other) ==
    /\ Running /\ IsSafeString /\ o \in alive /\ other \in alive
    /\ ptr' = [ptr EXCEPT ![o] = ptr[other], ![other] = nullptr]
    /\ obs' = Call("move_assign", o, other, 0, Void)
    /\ UNCHANGED <<Env, alive, value_>>

SS_MoveAssign(o, other) ==
    /\ Running /\ IsSafeString /\ o \in alive /\ other \in alive
    /\ ptr' = [ptr EXCEPT ![o] = ptr[other]]
    /\ obs' = Call("move_assign", o, other, 0, Void)
    /\ UNCHANGED <<Env, alive, value_>>

---------------------------------------------------------------------------
(* basic_safe_string: the read operations *)

SS_IsNull(o) ==
    /\ Running /\ IsSafeString /\ o \in alive
    /\ obs' = Call("is_null", o, "-", 0, RetBool(is_null(ptr[o])))
    /\ UNCHANGED <<Env, alive, ptr, value_>>

SS_Bool(o) ==
    /\ Running /\ IsSafeString /\ o \in alive
    /\ obs' = Call("bool", o, "-", 0, RetBool(operator_bool(ptr[o])))
    /\ UNCHANGED <<Env, alive, ptr, value_>>

\* A c_str() that stores the pointer it returns.
SS_CStr_stores(o) ==
    /\ Running /\ IsSafeString /\ o \in alive
    /\ obs' = Call("c_str", o, "-", 0, RetPtr(c_str(ptr[o])))
    /\ ptr' = [ptr EXCEPT ![o] = c_str(ptr[o])]
    /\ UNCHANGED <<Env, alive, value_>>

SS_CStr(o) ==
    /\ Running /\ IsSafeString /\ o \in alive
    /\ obs' = Call("c_str", o, "-", 0, RetPtr(c_str(ptr[o])))
    /\ UNCHANGED <<Env, alive, ptr, value_>>

SS_String(o) ==
    /\ Running /\ IsSafeString /\ o \in alive
    /\ obs' = Call("string", o, "-", 0, string(ptr[o]))
    /\ UNCHANGED <<Env, alive, ptr, value_>>

SS_View(o) ==
    /\ Running /\ IsSafeString /\ o \in alive
    /\ obs' = Call("view", o, "-", 0, view(ptr[o]))
    /\ UNCHANGED <<Env, alive, ptr, value_>>

SS_RelOp(op, o, other) ==
    /\ Running /\ IsSafeString /\ o \in alive /\ other \in alive
    /\ obs' = Call(op, o, other, 0, relop(op, ptr[o], ptr[other]))
    /\ UNCHANGED <<Env, alive, ptr, value_>>

SS_Begin(o) ==
    /\ Running /\ IsSafeString /\ o \in alive
    /\ obs' = Call("begin", o, "-", 0, begin(ptr[o]))
    /\ UNCHANGED <<Env, alive, ptr, value_>>

SS_End(o) ==
    /\ Running /\ IsSafeString /\ o \in alive
    /\ obs' = Call("end", o, "-", 0, end(ptr[o]))
    /\ UNCHANGED <<Env, alive, ptr, value_>>

SS_RangeFor(o) ==
    /\ Running /\ IsSafeString /\ o \in alive
    /\ obs' = Call("range_for", o, "-", 0, range_for(ptr[o]))
    /\ UNCHANGED <<Env, alive, ptr, value_>>

---------------------------------------------------------------------------
(* sentinel_result *)

SR_Ctor(o, v) ==
    /\ Running /\ IsSentinelResult /\ o \notin alive
    /\ alive' = alive \cup {o}
    /\ value_' = [value_ EXCEPT ![o] = v]
    /\ obs' = Call("ctor_value", o, "-", v, Void)
    /\ UNCHANGED <<Env, ptr>>

SR_CopyCtor(o, other) ==
    /\ Running /\ IsSentinelResult /\ o \notin alive /\ other \in alive
    /\ alive' = alive \cup {o}
    /\ value_' = [value_ EXCEPT ![o] = value_[other]]
    /\ obs' = Call("copy_ctor", o, other, 0, Void)
    /\ UNCHANGED <<Env, ptr>>

SR_MoveCtor(o, other) ==
    /\ Running /\ IsSentinelResult /\ o \notin alive /\ other \in alive
    /\ alive' = alive \cup {o}
    /\ value_' = [value_ EXCEPT ![o] = value_[other]]
    /\ obs' = Call("move_ctor", o, other, 0, Void)
    /\ UNCHANGED <<Env, ptr>>

SR_Dtor(o) ==
    /\ Running /\ IsSentinelResult /\ o \in alive
    /\ alive' = alive \ {o}
    /\ value_' = [value_ EXCEPT ![o] = 0]
    /\ obs' = Call("dtor", o, "-", 0, Void)
    /\ UNCHANGED <<Env, ptr>>

SR_CopyAssign(o, other) ==
    /\ Running /\ IsSentinelResult /\ o \in alive /\ other \in alive
    /\ value_' = [value_ EXCEPT ![o] = value_[other]]
    /\ obs' = Call("copy_assign", o, other, 0, Void)
    /\ UNCHANGED <<Env, alive, ptr>>

SR_MoveAssign(o, other) ==
    /\ Running /\ IsSentinelResult /\ o \in alive /\ other \in alive
    /\ value_' = [value_ EXCEPT ![o] = value_[other]]
    /\ obs' = Call("move_assign", o, other, 0, Void)
    /\ UNCHANGED <<Env, alive, ptr>>

SR_Value(o) ==
    /\ Running /\ IsSentinelResult /\ o \in alive
    /\ obs' = Call("value", o, "-", 0, RetInt(value(value_[o])))
    /\ UNCHANGED <<Env, alive, ptr, value_>>

SR_IsOk(o) ==
    /\ Running /\ IsSentinelResult /\ o \in alive
    /\ obs' = Call("is_ok", o, "-", 0, RetBool(is_ok(value_[o])))
    /\ UNCHANGED <<Env, alive, ptr, value_>>

SR_HasError(o) ==
    /\ Running /\ IsSentinelResult /\ o \in alive
    /\ obs' = Call("has_error", o, "-", 0, RetBool(has_error(value_[o])))
    /\ UNCHANGED <<Env, alive, ptr, value_>>

---------------------------------------------------------------------------

Next ==
    \/ \E o \in Objs : SS_DefaultCtor(o)
    \/ \E o \in Objs, src \in Pointers : SS_Ctor(o, src)
    \/ \E o, other \in Objs : SS_CopyCtor(o, other)
    \/ \E o, other \in Objs : SS_MoveCtor(o, other)
    \/ \E o \in Objs : SS_Dtor(o)
    \/ \E o, other \in Objs : SS_CopyAssign(o, other)
    \/ \E o, other \in Objs : SS_MoveAssign(o, other)
    \/ \E o \in Objs : SS_IsNull(o)
    \/ \E o \in Objs : SS_Bool(o)
    \/ \E o \in Objs : SS_CStr(o)
    \/ \E o \in Objs : SS_String(o)
    \/ \E o \in Objs : SS_View(o)
    \/ \E op \in RelOps, o, other \in Objs : SS_RelOp(op, o, other)
    \/ \E o \in Objs : SS_Begin(o)
    \/ \E o \in Objs : SS_End(o)
    \/ \E o \in Objs : SS_RangeFor(o)
    \/ \E o \in Objs, v \in Values : SR_Ctor(o, v)
    \/ \E o, other \in Objs : SR_CopyCtor(o, other)
    \/ \E o, other \in Objs : SR_MoveCtor(o, other)
    \/ \E o \in Objs : SR_Dtor(o)
    \/ \E o, other \in Objs : SR_CopyAssign(o, other)
    \/ \E o, other \in Objs : SR_MoveAssign(o, other)
    \/ \E o \in Objs : SR_Value(o)
    \/ \E o \in Objs : SR_IsOk(o)
    \/ \E o \in Objs : SR_HasError(o)
    \/ EndStatement

Spec == Init /\ [][Next]_vars

---------------------------------------------------------------------------
(* What the claims speak of, stated without the code's operators *)

Supported == {"char", "wchar_t", "char8_t", "char16_t", "char32_t"}

ReadOps ==
    {"is_null", "bool", "c_str", "string", "view", "begin", "end", "range_for",
     "value", "is_ok", "has_error"} \cup RelOps

CopyMoveOps == {"copy_ctor", "move_ctor", "copy_assign", "move_assign"}

\* The index of the first terminator of the buffer at a.
ScanLength(a) ==
    CHOOSE n \in 0..MemSize :
        /\ deref(a + n) = 0
        /\ \A k \in 0..(n - 1) : deref(a + k) # 0

\* The character sequence a wrapped pointer stands for: the characters
\* before the first terminator, none when the pointer is absent.
Content(p) ==
    IF p = nullptr THEN <<>> ELSE [k \in 1..ScanLength(p) |-> mem[p + k - 1]]

RECURSIVE LexLess(_, _)
LexLess(s, t) ==
    IF t = <<>> THEN FALSE
    ELSE IF s = <<>> THEN TRUE
    ELSE IF Head(s) # Head(t) THEN Head(s) < Head(t)
    ELSE LexLess(Tail(s), Tail(t))

\* s op t in the one lexicographic ordering of character sequences.
LexRel(op, s, t) ==
    CASE op = "==" -> s = t
      [] op = "!=" -> s # t
      [] op = "<"  -> LexLess(s, t)
      [] op = "<=" -> ~ LexLess(t, s)
      [] op = ">"  -> LexLess(t, s)
      [] op = ">=" -> ~ LexLess(s, t)

\* The object of the last call, and its second operand.
self == obs.a
rhs  == obs.b

---------------------------------------------------------------------------
\* C1: on an object whose wrapped pointer is absent, string(), view() and
\* the ordering comparisons behave as over the empty sequence and read
\* through no null pointer, whatever the character type.
C1_AbsentReadsAsEmpty ==
    (IsSafeString /\ obs.op \in ReadOps /\ ptr[self] = nullptr) =>
        /\ obs.op = "string" => obs.r = RetStr(<<>>)
        /\ obs.op = "view" => obs.r.tag = "view" /\ obs.r.n = 0
        /\ obs.op \in {"<", "<=", ">", ">="} =>
               obs.r = RetBool(LexRel(obs.op, <<>>, Content(ptr[rhs])))

\* C2: over a present pointer to a null-terminated buffer B, string() is the
\* characters of B before its first terminator, view() starts at B with the
\* scan-length of B as its length, end() - begin() is that scan-length and
\* iterating [begin(), end()) visits exactly those characters in order.
C2_PresentMaterializes ==
    (IsSafeString /\ obs.op \in ReadOps /\ ptr[self] # nullptr) =>
        /\ obs.op = "string" => obs.r = RetStr(Content(ptr[self]))
        /\ obs.op = "view" => obs.r = RetView(ptr[self], ScanLength(ptr[self]))
        /\ obs.op = "begin" => obs.r = RetPtr(ptr[self])
        /\ obs.op = "end" => obs.r = RetPtr(ptr[self] + ScanLength(ptr[self]))
        /\ obs.op = "range_for" => obs.r = RetRange(Content(ptr[self]))

\* C3, for the character types the header names: each of ==, !=, <, <=, >, >=
\* answers as the one lexicographic ordering of the two character sequences
\* does, an absent pointer standing for the empty sequence, whatever the
\* addresses.
C3_ComparesByContent ==
    (IsSafeString /\ inst.Char \in Supported /\ obs.op \in RelOps) =>
        obs.r = RetBool(LexRel(obs.op, Content(ptr[self]), Content(ptr[rhs])))

C5_IsOk ==
    IsSentinelResult =>
        /\ obs.op = "is_ok" =>
              /\ inst.comp = "equal_to" => obs.r = RetBool(value_[self] = inst.sentinel)
              /\ inst.comp = "not_equal_to" => obs.r = RetBool(value_[self] # inst.sentinel)
              /\ inst.comp = "less" => obs.r = RetBool(value_[self] < inst.sentinel)
              /\ (inst = SentinelHResult /\ value_[self] = 0) => obs.r = RetBool(TRUE)
              /\ (inst = SentinelHResult /\ value_[self] = 5) => obs.r = RetBool(FALSE)
              /\ (inst = StringResult /\ value_[self] = 0) => obs.r = RetBool(FALSE)
              /\ (inst = StringResult /\ value_[self] # 0) => obs.r = RetBool(TRUE)
        /\ (obs.op = "value" /\ value_[self] = 5) => obs.r = RetInt(5)

\* C5 witness: is_ok() was called on sentinel_result<int>(5) and said no.
C5_Witness ==
    /\ inst = SentinelHResult /\ obs.op = "is_ok"
    /\ value_[self] = 5 /\ obs.r = RetBool(FALSE)

\* C6: for XenomaiResult = sentinel_result<int, 0, std::less<int>>, a value
\* below zero reports has_error() and not is_ok(), and zero or a positive
\* value reports is_ok().
C6_LessThanZeroIsError ==
    inst = XenomaiResult =>
        /\ obs.op = "is_ok" => obs.r = RetBool(value_[self] >= 0)
        /\ obs.op = "has_error" => obs.r = RetBool(value_[self] < 0)

\* C7: for every configuration and every wrapped value has_error() is the
\* negation of is_ok(): exactly one of the two is true.
C7_HasErrorNegatesIsOk ==
    IsSentinelResult =>
        /\ obs.op = "has_error" => obs.r.tag = "bool" /\ obs.r.b # is_ok(value_[self])
        /\ obs.op = "is_ok" => obs.r.tag = "bool" /\ obs.r.b # has_error(value_[self])
        /\ \A o \in alive : is_ok(value_[o]) # has_error(value_[o])

\* C7 witness: has_error() was called on an object of a not_equal_to
\* configuration that wraps the sentinel, and said yes.
C7_Witness ==
    /\ IsSentinelResult /\ inst.comp = "not_equal_to"
    /\ obs.op = "has_error" /\ obs.r = RetBool(TRUE)
    /\ self \in alive /\ value_[self] = inst.sentinel

---------------------------------------------------------------------------
(* Everything a client can read from an object *)

\* The reads of one object, f its ptr (a basic_safe_string) or its value_
\* (a sentinel_result).
Reads(f) ==
    IF IsSafeString
      THEN <<is_null(f), operator_bool(f), c_str(f), string(f),
             view(f), begin(f), end(f), range_for(f)>>
      ELSE <<value(f), is_ok(f), has_error(f)>>

\* p op q for the six operators, p and q the pointers two objects hold.
Comparisons(p, q) ==
    IF IsSafeString THEN [op \in RelOps |-> relop(op, p, q)] ELSE <<>>

\* What the call the client just made returns when made again.
Again ==
    CASE obs.op = "is_null"   -> RetBool(is_null(ptr[self]))
      [] obs.op = "bool"      -> RetBool(operator_bool(ptr[self]))
      [] obs.op = "c_str"     -> RetPtr(c_str(ptr[self]))
      [] obs.op = "string"    -> string(ptr[self])
      [] obs.op = "view"      -> view(ptr[self])
      [] obs.op = "begin"     -> begin(ptr[self])
      [] obs.op = "end"       -> end(ptr[self])
      [] obs.op = "range_for" -> range_for(ptr[self])
      [] obs.op \in RelOps    -> relop(obs.op, ptr[self], ptr[rhs])
      [] obs.op = "value"     -> RetInt(value(value_[self]))
      [] obs.op = "is_ok"     -> RetBool(is_ok(value_[self]))
      [] obs.op = "has_error" -> RetBool(has_error(value_[self]))

---------------------------------------------------------------------------
\* C8: a copy or move construction or assignment leaves the destination
\* answering every read as the source did and comparing with every object as
\* the source does, leaves every answer of the source as it was, and value()
\* is the wrapped value verbatim, ok or not.
C8_CopyMovePreserves ==
    [][ /\ \A d, s \in Objs :
              (obs'.op \in CopyMoveOps /\ obs'.a = d /\ obs'.b = s) =>
                  LET s_before == IF IsSafeString THEN ptr[s] ELSE value_[s]
                      s_after  == IF IsSafeString THEN ptr'[s] ELSE value_'[s]
                      d_after  == IF IsSafeString THEN ptr'[d] ELSE value_'[d]
                      ss_before == Comparisons(ptr[s], ptr[s])
                      ss == Comparisons(ptr'[s], ptr'[s])
                      sd == Comparisons(ptr'[s], ptr'[d])
                      ds == Comparisons(ptr'[d], ptr'[s])
                      dd == Comparisons(ptr'[d], ptr'[d])
                  IN  /\ d \in alive' /\ s \in alive'
                      /\ UNCHANGED <<inst, build, mem>>
                      /\ Reads(d_after) = Reads(s_before)
                      /\ Reads(s_after) = Reads(s_before)
                      /\ ds = ss /\ dd = sd /\ sd = ss /\ dd = ds
                      /\ ss = ss_before
        /\ \A o \in Objs :
              (obs'.op = "ctor_value" /\ obs'.a = o) =>
                  value(value_[o])' = obs'.arg
        /\ \A o \in Objs :
              (obs'.op = "value" /\ obs'.a = o) => obs'.r = RetInt(value_[o])
      ]_vars

\* C8 witness: a move assignment between two objects gave the destination
\* the present pointer of the source.
C8_Witness ==
    /\ IsSafeString /\ obs.op = "move_assign" /\ self # rhs
    /\ ptr[rhs] # nullptr /\ ptr[self] = ptr[rhs]

\* C9: is_null() is true exactly when the wrapped pointer is absent and the
\* boolean conversion is its negation; a default-constructed object is null
\* and converts to false, an object over a present buffer is not null even
\* when the buffer is empty.
C9_IsNullAndBool ==
    IsSafeString =>
        /\ obs.op = "is_null" => obs.r = RetBool(ptr[self] = nullptr)
        /\ obs.op = "bool" => obs.r = RetBool(ptr[self] # nullptr)
        /\ \A o \in alive : operator_bool(ptr[o]) = ~ is_null(ptr[o])
        /\ obs.op = "ctor" => is_null(ptr[self]) /\ ~ operator_bool(ptr[self])
        /\ (obs.op = "ctor_ptr" /\ obs.arg # nullptr) =>
               ~ is_null(ptr[self]) /\ operator_bool(ptr[self])

\* C9 witness: is_null() was called on an object over a present, empty
\* buffer and said no.
C9_Witness ==
    /\ IsSafeString /\ obs.op = "is_null"
    /\ ptr[self] # nullptr /\ deref(ptr[self]) = 0
    /\ obs.r = RetBool(FALSE)

\* C10: a read operation changes no object, no buffer and nothing else a
\* read depends on, so the call just made returns the same when made again; what an existing
\* object holds changes only by a copy or move assignment to it.
C10_ReadsAreReadOnly ==
    [][ /\ obs'.op \in ReadOps =>
              /\ UNCHANGED <<inst, build, mem, alive, ptr, value_>>
              /\ (obs.r = Again)'
        /\ \A o \in alive \cap alive' :
              (ptr'[o] # ptr[o] \/ value_'[o] # value_[o]) =>
                  obs'.op \in {"copy_assign", "move_assign"} /\ obs'.a = o
      ]_vars

\* C10 witness: c_str() on an object without a pointer returned the ""
\* literal and the object still holds no pointer.
C10_Witness ==
    /\ IsSafeString /\ obs.op = "c_str"
    /\ ptr[self] = nullptr /\ obs.r.p # nullptr

====
